---- MODULE Spec2Model ----
(***************************************************************************)
(* Model of libai/data/structures.py: DistTensorData (a tensor with its    *)
(* sbp_list and placement_idx; to_global and stack) and Instance (an       *)
(* ordered mapping of named fields; set/has/remove/get and stack).         *)
(*                                                                         *)
(* Objects live in heaps and are named by their index, so that "the same   *)
(* object" and "an equal object" are different things, as in Python.       *)
(***************************************************************************)
EXTENDS Integers, Sequences, FiniteSets, TLC

VARIABLES
    conts,    \* heap of DistTensorData objects, id = index
    recs,     \* heap of Instance objects, id = index; each is its _fields
    last,     \* the last call made: its name, arguments and outcome
    calls,    \* tensor.to_global / get_layer_placement calls of the last to_global
    inst,     \* the Instance driven by set/remove/get: [fields, attrs]
    hist      \* history: per field name, the last set/remove done on inst

vars == <<conts, recs, last, calls, inst, hist>>

-----------------------------------------------------------------------------
(* Bounds *)

MaxConts == 3      \* containers on the heap at the start
MaxHeap == 4       \* containers on the heap at most
MaxRank == 2       \* rank of a payload at most (caps repeated unsqueeze)
MaxStage == 2      \* largest placement_idx

-----------------------------------------------------------------------------
(* Option values: None is <<>>, a present value x is <<x>> *)

None == <<>>
Some(x) == <<x>>

(* Tensors. kind "local" and "global" are flow.Tensor; "ndarray" is not.   *)
LocalTensor(shape) ==
    [kind |-> "local", shape |-> shape, sbp |-> None, placement |-> None]

NdArray(shape) ==
    [kind |-> "ndarray", shape |-> shape, sbp |-> None, placement |-> None]

\* isinstance(x, flow.Tensor)
IsFlowTensor(t) == t.kind \in {"local", "global"}

\* tensor.unsqueeze(0)
Unsqueeze0(t) == [t EXCEPT !.shape = <<1>> \o t.shape]

\* flow.cat in place of flow.stack: joins along the existing axis 0
FlowCat(ts) == [ts[1] EXCEPT !.shape = <<Len(ts) * ts[1].shape[1]>> \o Tail(ts[1].shape)]

\* flow.stack(tensors, dim=0) on tensors of one shape
FlowStack(ts) == [ts[1] EXCEPT !.shape = <<Len(ts)>> \o ts[1].shape]

\* DistTensorData(tensor, sbp_list=..., placement_idx=...); self.sbp is not
\* an attribute until to_global sets it
DistTensorData(tensor, sbp_list, placement_idx) ==
    [tensor |-> tensor, sbp_list |-> sbp_list,
     placement_idx |-> placement_idx, sbp |-> None]

\* Outcome of a call: status "ok" with ret, or "error" with the exception
\* class, the attribute the message names and the values it shows.
Ok(op, args, ret) ==
    [op |-> op, args |-> args, status |-> "ok", ret |-> ret,
     exc |-> "", attr |-> "", vals |-> <<>>]

Raise(op, args, exc, attr, vals) ==
    [op |-> op, args |-> args, status |-> "error", ret |-> 0,
     exc |-> exc, attr |-> attr, vals |-> vals]

-----------------------------------------------------------------------------
(* DistTensorData.stack *)

\* The loop body without its last assertion
StackMismatchNoStage(data, first) ==
    IF data.tensor.shape # first.tensor.shape THEN "tensor shape"
    ELSE IF data.sbp_list # first.sbp_list THEN "sbp_list"
    ELSE ""

\* The three assertions of the loop body, for element data against element 0:
\* the attribute of the first assertion that fails, "" when all hold.
StackMismatch(data, first) ==
    IF data.tensor.shape # first.tensor.shape THEN "tensor shape"
    ELSE IF data.sbp_list # first.sbp_list THEN "sbp_list"
    ELSE IF data.placement_idx # first.placement_idx THEN "placement_idx"
    ELSE ""

\* The values the assertion message shows for attribute a
MismatchVals(a, data, first) ==
    IF a = "tensor shape" THEN <<data.tensor.shape, first.tensor.shape>>
    ELSE IF a = "sbp_list" THEN <<data.sbp_list, first.sbp_list>>
    ELSE <<data.placement_idx, first.placement_idx>>

\* for data in distTensor_lists: ... from element i on. Returns the error of
\* the first element that fails, or [exc |-> ""] when the loop completes.
RECURSIVE StackLoop(_, _, _)
StackLoop(h, ids, i) ==
    IF i > Len(ids) THEN [exc |-> "", attr |-> "", vals |-> <<>>]
    ELSE LET data == h[ids[i]]
             first == h[ids[1]]
         IN IF ~IsFlowTensor(data.tensor)
            THEN \* ndarray.size is an int: data.tensor.size() is not callable
                 [exc |-> "TypeError", attr |-> "size", vals |-> <<>>]
            ELSE LET a == StackMismatch(data, first)
                 IN IF a # ""
                    THEN [exc |-> "AssertionError", attr |-> a,
                          vals |-> MismatchVals(a, data, first)]
                    ELSE StackLoop(h, ids, i + 1)

\* A stack that reuses element 0 for the result whatever the length
DistStackInPlace(h, ids) ==
    LET first == h[ids[1]] IN
    IF ~IsFlowTensor(first.tensor)
    THEN [heap |-> h,
          out |-> Raise("DistTensorData.stack", ids, "TypeError",
                        first.tensor.kind, <<>>)]
    ELSE LET e == StackLoop(h, ids, 1) IN
         IF e.exc # ""
         THEN [heap |-> h,
               out |-> Raise("DistTensorData.stack", ids, e.exc, e.attr, e.vals)]
         ELSE LET tensors == [i \in 1..Len(ids) |-> h[ids[i]].tensor]
              IN [heap |-> [h EXCEPT ![ids[1]].tensor = FlowStack(tensors)],
                  out |-> Ok("DistTensorData.stack", ids, ids[1])]

\* DistTensorData.stack(distTensor_lists), ids non-empty: the heap after the
\* call and the outcome.
DistStack(h, ids) ==
    LET first == h[ids[1]] IN
    IF ~IsFlowTensor(first.tensor)
    THEN [heap |-> h,
          out |-> Raise("DistTensorData.stack", ids, "TypeError",
                        first.tensor.kind, <<>>)]
    ELSE IF Len(ids) = 1
    THEN [heap |-> [h EXCEPT ![ids[1]].tensor = Unsqueeze0(first.tensor)],
          out |-> Ok("DistTensorData.stack", ids, ids[1])]
    ELSE LET e == StackLoop(h, ids, 1) IN
         IF e.exc # ""
         THEN [heap |-> h,
               out |-> Raise("DistTensorData.stack", ids, e.exc, e.attr, e.vals)]
         ELSE LET tensors == [i \in 1..Len(ids) |-> h[ids[i]].tensor]
                  ret == DistTensorData(FlowStack(tensors), first.sbp_list,
                                        first.placement_idx)
              IN [heap |-> Append(h, ret),
                  out |-> Ok("DistTensorData.stack", ids, Len(h) + 1)]

-----------------------------------------------------------------------------
(* Strings: an sbp token is a sequence of symbols, "_" being the separator *)

TokSplit0 == <<"split", "_", "0">>
TokBroadcast == <<"broadcast">>

\* str.split("_"): the segments between the separators, empty ones included
RECURSIVE SplitUnderscore(_)
SplitUnderscore(s) ==
    IF \A i \in 1..Len(s) : s[i] # "_" THEN <<s>>
    ELSE LET i == CHOOSE j \in 1..Len(s) :
                      s[j] = "_" /\ \A k \in 1..(j - 1) : s[k] # "_"
         IN <<SubSeq(s, 1, i - 1)>> \o SplitUnderscore(SubSeq(s, i + 1, Len(s)))

Digits == {"0", "1"}
DigitVal(d) == IF d = "0" THEN 0 ELSE 1

\* int(s) succeeds on a non-empty run of digits
IntOk(s) == Len(s) > 0 /\ \A i \in 1..Len(s) : s[i] \in Digits

RECURSIVE IntVal(_)
IntVal(s) ==
    IF Len(s) = 0 THEN 0
    ELSE 10 * IntVal(SubSeq(s, 1, Len(s) - 1)) + DigitVal(s[Len(s)])

\* The names getattr finds in flow.sbp: two sbp values and the split function
FlowSbpAttrs == {<<"broadcast">>, <<"partial_sum">>, <<"split">>}

\* flow.sbp.split(dim)
SbpSplit(dim) == [mode |-> "split", dim |-> dim]

\* getattr(flow.sbp, sbp_sign), sbp_sign one of FlowSbpAttrs
SbpAttr(sign) ==
    IF sign = <<"split">> THEN [mode |-> "split_function", dim |-> -1]
    ELSE [mode |-> sign[1], dim |-> -1]

\* One pass of the loop body over a token: the sbp appended, or the exception
\* raised with what its message shows.
ResolveToken(tok) ==
    LET sbp == SplitUnderscore(tok) IN
    IF Len(sbp) > 1
    THEN IF sbp[1] # <<"split">>
         THEN [exc |-> "AssertionError", shows |-> <<>>, val |-> SbpSplit(0)]
         ELSE IF ~IntOk(sbp[2])
         THEN [exc |-> "ValueError", shows |-> <<sbp[2]>>, val |-> SbpSplit(0)]
         ELSE [exc |-> "", shows |-> <<>>, val |-> SbpSplit(IntVal(sbp[2]))]
    ELSE IF sbp[1] \notin FlowSbpAttrs
         THEN [exc |-> "AttributeError", shows |-> <<sbp[1]>>, val |-> SbpSplit(0)]
         ELSE [exc |-> "", shows |-> <<>>, val |-> SbpAttr(sbp[1])]

\* for sbp in self.sbp_list: ... from token i on, acc the sbp_list built so far
RECURSIVE ResolveLoop(_, _, _)
ResolveLoop(toks, i, acc) ==
    IF i > Len(toks) THEN [exc |-> "", shows |-> <<>>, list |-> acc]
    ELSE LET r == ResolveToken(toks[i])
         IN IF r.exc # "" THEN [exc |-> r.exc, shows |-> r.shows, list |-> acc]
            ELSE ResolveLoop(toks, i + 1, Append(acc, r.val))

\* dist.get_nd_sbp(sbp_list): the policy made of the list, axis by axis
GetNdSbp(sbp_list) == [nd_sbp |-> sbp_list]

\* dist.get_layer_placement(idx, device_type): the device group of a stage
GetLayerPlacement(idx, device_type) ==
    [via |-> "stage", idx |-> idx, device |-> device_type]

\* tensor.to_global(sbp=..., placement=...): without sbp the tensor keeps its own
TensorToGlobal(t, sbp, placement) ==
    [t EXCEPT !.kind = "global",
              !.sbp = IF sbp = None THEN t.sbp ELSE sbp,
              !.placement = Some(placement)]

\* Entries of the call log
PlacementLookup(idx, device_type) ==
    [fn |-> "get_layer_placement", idx |-> idx, device |-> device_type,
     sbp |-> None, placement |-> None, check_meta |-> TRUE, sync_data |-> TRUE]

GlobalCall(sbp, placement, check_meta, sync_data) ==
    [fn |-> "tensor.to_global", idx |-> 0, device |-> "",
     sbp |-> sbp, placement |-> Some(placement),
     check_meta |-> check_meta, sync_data |-> sync_data]

-----------------------------------------------------------------------------
(* DistTensorData.to_global *)

\* Lines 33-47: self.sbp after the first half, or the exception of the loop
ResolveSbp(c, sbp) ==
    IF sbp # None THEN [exc |-> "", shows |-> <<>>, sbp |-> sbp]
    ELSE LET r == ResolveLoop(c.sbp_list, 1, <<>>)
         IN IF r.exc # "" THEN [exc |-> r.exc, shows |-> r.shows, sbp |-> c.sbp]
            ELSE [exc |-> "", shows |-> <<>>, sbp |-> Some(GetNdSbp(r.list))]

\* The second half without the detour through stage 0: one call, made onto
\* the group of the container's own stage
PlaceDirect(c, a) ==
    LET target == IF a.placement # None THEN a.placement[1]
                  ELSE GetLayerPlacement(c.placement_idx, a.device_type)
        log == IF a.placement # None THEN <<>>
               ELSE <<PlacementLookup(c.placement_idx, a.device_type)>>
        call == GlobalCall(c.sbp, target, a.check_meta, a.sync_data)
    IN IF a.fails = 1
       THEN [cont |-> c, calls |-> Append(log, call),
             out |-> Raise("to_global", a, "RuntimeError", "", <<>>)]
       ELSE [cont |-> [c EXCEPT !.tensor = TensorToGlobal(c.tensor, c.sbp, target)],
             calls |-> Append(log, call),
             out |-> Ok("to_global", a, 0)]

\* Lines 49-70 with self.sbp set: a.fails is the tensor.to_global call that
\* raises (0: none does). Returns the container, the call log and the outcome.
Place(c, a) ==
    IF a.placement # None
    THEN LET call == GlobalCall(c.sbp, a.placement[1], a.check_meta, a.sync_data)
         IN IF a.fails = 1
            THEN [cont |-> c, calls |-> <<call>>,
                  out |-> Raise("to_global", a, "RuntimeError", "", <<>>)]
            ELSE [cont |-> [c EXCEPT !.tensor =
                              TensorToGlobal(c.tensor, c.sbp, a.placement[1])],
                  calls |-> <<call>>,
                  out |-> Ok("to_global", a, 0)]
    ELSE LET main_placement == GetLayerPlacement(0, a.device_type)
             look1 == PlacementLookup(0, a.device_type)
             call1 == GlobalCall(c.sbp, main_placement, a.check_meta, a.sync_data)
             c1 == [c EXCEPT !.tensor =
                      TensorToGlobal(c.tensor, c.sbp, main_placement)]
             stage == GetLayerPlacement(c.placement_idx, a.device_type)
             look2 == PlacementLookup(c.placement_idx, a.device_type)
             call2 == GlobalCall(None, stage, a.check_meta, a.sync_data)
             c2 == [c1 EXCEPT !.tensor = TensorToGlobal(c1.tensor, None, stage)]
         IN IF a.fails = 1
            THEN [cont |-> c, calls |-> <<look1, call1>>,
                  out |-> Raise("to_global", a, "RuntimeError", "", <<>>)]
            ELSE IF c.placement_idx = 0
            THEN [cont |-> c1, calls |-> <<look1, call1>>,
                  out |-> Ok("to_global", a, 0)]
            ELSE IF a.fails = 2
            THEN [cont |-> c1, calls |-> <<look1, call1, look2, call2>>,
                  out |-> Raise("to_global", a, "RuntimeError", "", <<>>)]
            ELSE [cont |-> c2, calls |-> <<look1, call1, look2, call2>>,
                  out |-> Ok("to_global", a, 0)]

\* self.to_global(sbp, placement, device_type, check_meta, sync_data)
ToGlobalRun(c, a) ==
    LET r == ResolveSbp(c, a.sbp) IN
    IF r.exc # ""
    THEN [cont |-> c, calls |-> <<>>,
          out |-> Raise("to_global", a, r.exc, "", r.shows)]
    ELSE Place([c EXCEPT !.sbp = r.sbp], a)

-----------------------------------------------------------------------------
(* Inputs *)

Shapes == {<<2>>, <<3>>}
Payloads == {LocalTensor(s) : s \in Shapes} \cup {NdArray(<<2>>)}
Descriptors == {<<TokSplit0, TokBroadcast>>, <<TokBroadcast, TokBroadcast>>}
Stages == 0..MaxStage
Containers ==
    {DistTensorData(t, d, k) : t \in Payloads, d \in Descriptors, k \in 0..1}

Idle == Ok("", <<>>, 0)

\* The batch handed to stack: the first n containers of the heap
Batch(n) == [i \in 1..n |-> i]

Rank(h, ids) == Len(h[ids[1]].tensor.shape)

-----------------------------------------------------------------------------
(* Specification of DistTensorData.stack *)

InitStack ==
    /\ \E n \in 1..MaxConts : conts \in [1..n -> Containers]
    /\ recs = <<>>
    /\ last = Idle
    /\ calls = <<>>
    /\ inst = <<>>
    /\ hist = <<>>

Stack(ids) ==
    /\ Len(conts) < MaxHeap
    /\ Rank(conts, ids) < MaxRank
    /\ LET r == DistStack(conts, ids)
       IN /\ conts' = r.heap
          /\ last' = r.out
    /\ UNCHANGED <<recs, calls, inst, hist>>

NextStack == \E n \in 1..Len(conts) : Stack(Batch(n))

SpecStack == InitStack /\ [][NextStack]_vars

\* The step is a call of DistTensorData.stack on ids
StackCalled(ids) == last'.op = "DistTensorData.stack" /\ last'.args = ids

\* All of ids hold local tensors and agree on shape, sbp_list, placement_idx
Uniform(h, ids) ==
    \A i \in 1..Len(ids) :
        /\ h[ids[i]].tensor.kind = "local"
        /\ h[ids[i]].tensor.shape = h[ids[1]].tensor.shape
        /\ h[ids[i]].sbp_list = h[ids[1]].sbp_list
        /\ h[ids[i]].placement_idx = h[ids[1]].placement_idx

\* C1: stack of n >= 1 containers with local payloads of one shape and equal
\* sbp_list and placement_idx returns a container whose payload has shape
\* (n,) + shape and whose sbp_list and placement_idx are those of the inputs.
C1_StackShape ==
    [][\A n \in 1..Len(conts) :
          (StackCalled(Batch(n)) /\ Uniform(conts, Batch(n))) =>
              /\ last'.status = "ok"
              /\ last'.ret \in 1..Len(conts')
              /\ conts'[last'.ret].tensor.shape = <<n>> \o conts[1].tensor.shape
              /\ conts'[last'.ret].sbp_list = conts[1].sbp_list
              /\ conts'[last'.ret].placement_idx = conts[1].placement_idx]_vars

C1_Witness ==
    /\ last.op = "DistTensorData.stack"
    /\ last.status = "ok"
    /\ Len(last.args) = 3
    /\ conts[last.ret].tensor.shape = <<3, 2>>

\* Whether element i of ids differs from element 0 on the attribute
Differs(h, ids, i, attr) ==
    IF attr = "tensor shape"
    THEN h[ids[i]].tensor.shape # h[ids[1]].tensor.shape
    ELSE IF attr = "sbp_list"
    THEN h[ids[i]].sbp_list # h[ids[1]].sbp_list
    ELSE h[ids[i]].placement_idx # h[ids[1]].placement_idx

CheckedAttrs == <<"tensor shape", "sbp_list", "placement_idx">>

\* (i, j): element i mismatches on the j-th attribute
Mismatches(h, ids) ==
    {p \in (1..Len(ids)) \X (1..3) : Differs(h, ids, p[1], CheckedAttrs[p[2]])}

\* Order of the checks: element by element, and within one, attribute by attribute
Before(p, q) == p[1] < q[1] \/ (p[1] = q[1] /\ p[2] <= q[2])

\* C3: for n > 1 tensors' containers, stack fails on the first mismatch in
\* the order (element, then shape / sbp_list / placement_idx) with an error
\* naming that attribute and showing the element's value and element 0's,
\* and returns a container only when nothing mismatches.
C3_FirstMismatch ==
    [][\A n \in 2..Len(conts) :
          (/\ StackCalled(Batch(n))
           /\ \A i \in 1..n : IsFlowTensor(conts[i].tensor)) =>
              LET ids == Batch(n)
                  bad == Mismatches(conts, ids)
              IN IF bad = {}
                 THEN last'.status = "ok"
                 ELSE LET p == CHOOSE q \in bad : \A r \in bad : Before(q, r)
                          attr == CheckedAttrs[p[2]]
                      IN /\ last'.status = "error"
                         /\ last'.exc = "AssertionError"
                         /\ last'.attr = attr
                         /\ last'.vals = MismatchVals(attr, conts[p[1]], conts[1])]_vars

\* The third element is the first to mismatch, and on its placement_idx only
C3_Witness ==
    /\ last.op = "DistTensorData.stack"
    /\ last.status = "error"
    /\ last.attr = "placement_idx"
    /\ Len(last.args) = 3
    /\ conts[2] = conts[1]
    /\ last.vals = <<conts[3].placement_idx, conts[1].placement_idx>>

\* C8: a stack call on n > 1 containers leaves every container as it was and,
\* when it succeeds, returns a container that is none of the earlier ones; a
\* call on one container returns that container with a leading axis added to
\* its payload, sbp_list and placement_idx as before.
C8_StackFrame ==
    [][\A n \in 1..Len(conts) :
          StackCalled(Batch(n)) =>
              IF n > 1
              THEN /\ \A i \in 1..Len(conts) : conts'[i] = conts[i]
                   /\ last'.status = "ok" =>
                          /\ last'.ret = Len(conts) + 1
                          /\ Len(conts') = Len(conts) + 1
                   /\ last'.status = "error" => conts' = conts
              ELSE /\ Len(conts') = Len(conts)
                   /\ \A i \in 2..Len(conts) : conts'[i] = conts[i]
                   /\ last'.status = "error" => conts' = conts
                   /\ last'.status = "ok" =>
                          /\ last'.ret = 1
                          /\ conts'[1] = [conts[1] EXCEPT
                                 !.tensor.shape = <<1>> \o conts[1].tensor.shape]]_vars

C8_Witness ==
    /\ last.op = "DistTensorData.stack"
    /\ last.status = "ok"
    /\ last.args = <<1>>
    /\ last.ret = 1
    /\ conts[1].tensor.shape = <<1, 3>>
    /\ Len(conts) = 2

-----------------------------------------------------------------------------
(* Specification of DistTensorData.to_global *)

MaxAxes == 2       \* tokens in an sbp_list at most

Tokens ==
    {TokSplit0, TokBroadcast, <<"split", "_", "1">>,
     <<"foo">>, <<"foo", "_", "0">>, <<"split", "_", "x">>, <<"split", "_">>,
     <<"split", "_", "0", "_", "1">>, <<>>}

SbpLists == UNION {[1..n -> Tokens] : n \in 1..MaxAxes}

ExplicitSbp == GetNdSbp(<<SbpSplit(1), SbpAttr(<<"broadcast">>)>>)

ExplicitPlacements ==
    {[via |-> "ranks", idx |-> 0, device |-> "cuda"],
     [via |-> "ranks", idx |-> 1, device |-> "cpu"]}

ToGlobalArgs ==
    [sbp : {None, Some(ExplicitSbp)},
     placement : {None} \cup {Some(p) : p \in ExplicitPlacements},
     device_type : {"cuda", "cpu"},
     check_meta : BOOLEAN, sync_data : BOOLEAN,
     fails : 0..2]

InitGlobal ==
    /\ \E d \in SbpLists, k \in Stages :
          conts = <<DistTensorData(LocalTensor(<<2>>), d, k)>>
    /\ recs = <<>>
    /\ last = Idle
    /\ calls = <<>>
    /\ inst = <<>>
    /\ hist = <<>>

\* The container is materialized once
ToGlobal(a) ==
    /\ last.op = ""
    /\ LET r == ToGlobalRun(conts[1], a)
       IN /\ conts' = <<r.cont>>
          /\ calls' = r.calls
          /\ last' = r.out
    /\ UNCHANGED <<recs, inst, hist>>

NextGlobal == \E a \in ToGlobalArgs : ToGlobal(a)

SpecGlobal == InitGlobal /\ [][NextGlobal]_vars

IsGlobalCall(e) == e.fn = "tensor.to_global"
IsLookup(e) == e.fn = "get_layer_placement"
GlobalCalls == SelectSeq(calls, IsGlobalCall)
Lookups == SelectSeq(calls, IsLookup)

\* C2: the tensor.to_global calls of a to_global that returns. With a
\* placement argument: one call, onto it, and no stage group is looked up.
\* Without one and placement_idx = 0: one call, onto stage 0's group with the
\* sbp. Without one and placement_idx = k > 0: two calls, first onto stage 0's
\* group with the sbp, then onto stage k's group without sbp, and the tensor
\* ends on stage k's group. A to_global that raises made no more calls than that.
C2_PlacementCalls ==
    last.op = "to_global" =>
        LET c == conts[1]
            a == last.args
            g == GlobalCalls
            stage0 == GetLayerPlacement(0, a.device_type)
            stagek == GetLayerPlacement(c.placement_idx, a.device_type)
            expected == IF a.placement = None /\ c.placement_idx > 0 THEN 2 ELSE 1
        IN /\ a.placement # None => Lookups = <<>>
           /\ Len(g) <= expected
           /\ last.status = "ok" =>
                 /\ Len(g) = expected
                 /\ c.sbp # None
                 /\ a.sbp # None => c.sbp = a.sbp
                 /\ g[1].sbp = c.sbp
                 /\ g[1].placement =
                        (IF a.placement # None THEN a.placement ELSE Some(stage0))
                 /\ expected = 2 =>
                        /\ g[2].sbp = None
                        /\ g[2].placement = Some(stagek)
                        /\ c.tensor.placement = Some(stagek)
                        /\ calls[1] = PlacementLookup(0, a.device_type)
                        /\ IsGlobalCall(calls[2])
                 /\ c.tensor.kind = "global"
                 /\ c.tensor.placement = g[Len(g)].placement

C2_Witness ==
    /\ last.op = "to_global"
    /\ last.status = "ok"
    /\ last.args.placement = None
    /\ conts[1].placement_idx = 2
    /\ Len(GlobalCalls) = 2
    /\ conts[1].tensor.placement = Some(GetLayerPlacement(2, last.args.device_type))

\* A token the resolver is specified to take: "broadcast", or "split_" and digits
WellFormedToken(tok) ==
    \/ tok = <<"broadcast">>
    \/ /\ Len(tok) >= 3
       /\ tok[1] = "split"
       /\ tok[2] = "_"
       /\ \A i \in 3..Len(tok) : tok[i] \in Digits

\* C4: when to_global resolves the sbp from sbp_list, a token that is neither
\* "broadcast" nor "split_<int>" makes it raise before any tensor.to_global call.
C4_MalformedTokenRejected ==
    (/\ last.op = "to_global"
     /\ last.args.sbp = None
     /\ \E i \in 1..Len(conts[1].sbp_list) : ~WellFormedToken(conts[1].sbp_list[i]))
        => (last.status = "error" /\ calls = <<>>)

\* C9: a to_global that raises leaves the container's payload as it was
C9_ErrorLeavesPayload ==
    [][(last'.op = "to_global" /\ last'.status = "error")
          => conts'[1].tensor = conts[1].tensor]_vars

-----------------------------------------------------------------------------
(* Instance: the field mapping and its operations *)

\* name.startswith("_")
StartsWithUnderscore(name) == Len(name) > 0 /\ name[1] = "_"

\* Position of name among the keys of an OrderedDict, 0 when absent
KeyIndex(fields, name) ==
    IF \E i \in 1..Len(fields) : fields[i].name = name
    THEN CHOOSE i \in 1..Len(fields) :
            fields[i].name = name /\ \A j \in 1..(i - 1) : fields[j].name # name
    ELSE 0

\* name in self._fields
HasField(fields, name) == KeyIndex(fields, name) # 0

\* self._fields[name], name being a key
FieldValue(fields, name) == fields[KeyIndex(fields, name)].value

\* A set that adds an entry even when the key is there already
SetFieldAppend(fields, name, value) ==
    Append(fields, [name |-> name, value |-> value])

\* self._fields[name] = value: the key keeps its position when it exists
SetField(fields, name, value) ==
    IF HasField(fields, name)
    THEN [fields EXCEPT ![KeyIndex(fields, name)].value = value]
    ELSE Append(fields, [name |-> name, value |-> value])

\* del self._fields[name], name being a key
DelField(fields, name) ==
    LET i == KeyIndex(fields, name)
    IN SubSeq(fields, 1, i - 1) \o SubSeq(fields, i + 1, Len(fields))

\* Instance(**kwargs): set is called for every keyword, in order
RECURSIVE InstanceInit(_, _)
InstanceInit(kwargs, i) ==
    IF i = 0 THEN <<>>
    ELSE SetField(InstanceInit(kwargs, i - 1), kwargs[i].name, kwargs[i].value)

\* object.__setattr__(name, val) for the private names
SetPrivate(attrs, name, val) == SetField(attrs, name, val)

-----------------------------------------------------------------------------
(* Specification of the field operations of one Instance *)

MaxKw == 2         \* keyword arguments of the constructor at most

Names == {<<"x">>, <<"y">>, <<"_", "p">>}
Values == {1, 2}

Kwargs ==
    {k \in UNION {[1..n -> [name : Names, value : Values]] : n \in 0..MaxKw} :
        \A i, j \in 1..Len(k) : i # j => k[i].name # k[j].name}

NoOp == [op |-> "none", value |-> 0]

\* The history after the constructor: every keyword was set
HistInit(kwargs) ==
    [n \in Names |->
        IF \E i \in 1..Len(kwargs) : kwargs[i].name = n
        THEN [op |-> "set",
              value |-> kwargs[CHOOSE i \in 1..Len(kwargs) : kwargs[i].name = n].value]
        ELSE NoOp]

InitFields ==
    /\ \E k \in Kwargs :
          /\ inst = [fields |-> InstanceInit(k, Len(k)), attrs |-> <<>>]
          /\ hist = HistInit(k)
    /\ conts = <<>>
    /\ recs = <<>>
    /\ last = Idle
    /\ calls = <<>>

NameArg(name) == [name |-> name]

\* instance.set(name, value)
Set(name, value) ==
    /\ inst' = [inst EXCEPT !.fields = SetField(inst.fields, name, value)]
    /\ hist' = [hist EXCEPT ![name] = [op |-> "set", value |-> value]]
    /\ last' = Ok("set", NameArg(name), 0)
    /\ UNCHANGED <<conts, recs, calls>>

\* instance.<name> = val
SetAttr(name, val) ==
    /\ IF StartsWithUnderscore(name)
       THEN /\ inst' = [inst EXCEPT !.attrs = SetPrivate(inst.attrs, name, val)]
            /\ hist' = hist
       ELSE /\ inst' = [inst EXCEPT !.fields = SetField(inst.fields, name, val)]
            /\ hist' = [hist EXCEPT ![name] = [op |-> "set", value |-> val]]
    /\ last' = Ok("__setattr__", NameArg(name), 0)
    /\ UNCHANGED <<conts, recs, calls>>

\* instance.has(name)
Has(name) ==
    /\ last' = Ok("has", NameArg(name), IF HasField(inst.fields, name) THEN 1 ELSE 0)
    /\ UNCHANGED <<conts, recs, calls, inst, hist>>

\* instance.remove(name)
Remove(name) ==
    /\ IF HasField(inst.fields, name)
       THEN /\ inst' = [inst EXCEPT !.fields = DelField(inst.fields, name)]
            /\ last' = Ok("remove", NameArg(name), 0)
       ELSE /\ inst' = inst
            /\ last' = Raise("remove", NameArg(name), "KeyError", "", <<name>>)
    /\ hist' = [hist EXCEPT ![name] = [op |-> "remove", value |-> 0]]
    /\ UNCHANGED <<conts, recs, calls>>

\* instance.get(name)
Get(name) ==
    /\ last' = IF HasField(inst.fields, name)
               THEN Ok("get", NameArg(name), FieldValue(inst.fields, name))
               ELSE Raise("get", NameArg(name), "KeyError", "", <<name>>)
    /\ UNCHANGED <<conts, recs, calls, inst, hist>>

\* instance.<name>: an attribute set on the object is found first, and
\* __getattr__ answers for the rest
GetAttr(name) ==
    /\ last' = IF HasField(inst.attrs, name)
               THEN Ok("__getattr__", NameArg(name), FieldValue(inst.attrs, name))
               ELSE IF ~HasField(inst.fields, name)
               THEN Raise("__getattr__", NameArg(name), "AttributeError", "", <<name>>)
               ELSE Ok("__getattr__", NameArg(name), FieldValue(inst.fields, name))
    /\ UNCHANGED <<conts, recs, calls, inst, hist>>

\* len(instance)
LenFields ==
    /\ last' = Ok("__len__", NameArg(<<>>), Len(inst.fields))
    /\ UNCHANGED <<conts, recs, calls, inst, hist>>

NextFields ==
    \/ \E n \in Names, v \in Values : Set(n, v)
    \/ \E n \in Names, v \in Values : SetAttr(n, v)
    \/ \E n \in Names : Has(n)
    \/ \E n \in Names : Remove(n)
    \/ \E n \in Names : Get(n)
    \/ \E n \in Names : GetAttr(n)
    \/ LenFields

SpecFields == InitFields /\ [][NextFields]_vars

\* C6: after any sequence of set and remove, for every name x without the
\* leading underscore: has(x) exactly when the last of them on x was a set,
\* get(x) is then the value of that set, and get(x) raises KeyError when x
\* was never set or was removed since.
C6_LastSetWins ==
    \A x \in Names :
        ~StartsWithUnderscore(x) =>
            /\ HasField(inst.fields, x) <=> hist[x].op = "set"
            /\ HasField(inst.fields, x) => FieldValue(inst.fields, x) = hist[x].value
            /\ (last.op = "get" /\ last.args.name = x) =>
                  IF hist[x].op = "set"
                  THEN last.status = "ok" /\ last.ret = hist[x].value
                  ELSE last.status = "error" /\ last.exc = "KeyError"

\* x, set before another field and last set to 2, keeps the first position,
\* and get(x) has answered 2
C6_Witness ==
    /\ last.op = "get"
    /\ last.args.name = <<"x">>
    /\ last.status = "ok"
    /\ last.ret = 2
    /\ Len(inst.fields) = 2
    /\ inst.fields[1] = [name |-> <<"x">>, value |-> 2]

\* C7: set(name, value) with a name that starts with "_" does not make it a
\* field: has(name) is false afterward.
C7_PrivateNotField ==
    (last.op = "set" /\ StartsWithUnderscore(last.args.name))
        => ~HasField(inst.fields, last.args.name)

-----------------------------------------------------------------------------
(* Instance.stack *)

\* Field values: a flow.Tensor, a list, an int, or a DistTensorData of the heap
TensorVal(shape) == [t |-> "Tensor", shape |-> shape, ref |-> 0, items |-> <<>>]
ListVal(items) == [t |-> "list", shape |-> <<>>, ref |-> 0, items |-> items]
IntVal0 == [t |-> "int", shape |-> <<>>, ref |-> 0, items |-> <<>>]
DistVal(id) == [t |-> "DistTensorData", shape |-> <<>>, ref |-> id, items |-> <<>>]

\* hasattr(type(v), "stack")
HasStack(v) == v.t = "DistTensorData"

\* flow.stack(values, dim=0) on field values: every value must be a tensor,
\* and of one shape
FlowStackValues(values) ==
    IF \E i \in 1..Len(values) : values[i].t # "Tensor"
    THEN [exc |-> "TypeError", val |-> values[1]]
    ELSE IF \E i \in 1..Len(values) : values[i].shape # values[1].shape
    THEN [exc |-> "RuntimeError", val |-> values[1]]
    ELSE [exc |-> "", val |-> TensorVal(<<Len(values)>> \o values[1].shape)]

\* type(v0).stack(values), v0 a DistTensorData: the loop reads data.tensor of
\* every value, which a value of another type does not have
DistStackValues(h, values) ==
    LET n == Len(values)
        others == {i \in 1..n : values[i].t # "DistTensorData"}
    IN IF others = {}
       THEN DistStack(h, [i \in 1..n |-> values[i].ref])
       ELSE IF 1 \in others
       THEN [heap |-> h,
             out |-> Raise("DistTensorData.stack", <<>>, "AttributeError",
                           "tensor", <<>>)]
       ELSE LET j == CHOOSE i \in others : \A k \in others : i <= k
                ids == [i \in 1..(j - 1) |-> values[i].ref]
                e == StackLoop(h, ids, 1)
            IN IF ~IsFlowTensor(h[ids[1]].tensor)
               THEN [heap |-> h,
                     out |-> Raise("DistTensorData.stack", ids, "TypeError",
                                   h[ids[1]].tensor.kind, <<>>)]
               ELSE IF e.exc # ""
               THEN [heap |-> h,
                     out |-> Raise("DistTensorData.stack", ids, e.exc, e.attr, e.vals)]
               ELSE [heap |-> h,
                     out |-> Raise("DistTensorData.stack", ids, "AttributeError",
                                   "tensor", <<>>)]

\* A dispatch on the type of the last value instead of the first
MergeByLast(h, values) ==
    LET v0 == values[Len(values)] IN
    IF v0.t = "Tensor"
    THEN LET r == FlowStackValues(values)
         IN [heap |-> h, exc |-> r.exc, attr |-> "", val |-> r.val]
    ELSE IF v0.t = "list"
    THEN [heap |-> h, exc |-> "", attr |-> "", val |-> ListVal(values)]
    ELSE IF HasStack(v0)
    THEN LET r == DistStackValues(h, values)
         IN [heap |-> r.heap, exc |-> r.out.exc, attr |-> r.out.attr,
             val |-> DistVal(r.out.ret)]
    ELSE [heap |-> h, exc |-> "ValueError", attr |-> v0.t, val |-> v0]

\* Lines 180-188: the batched value of one field, by the type of values[0]
Merge(h, values) ==
    LET v0 == values[1] IN
    IF v0.t = "Tensor"
    THEN LET r == FlowStackValues(values)
         IN [heap |-> h, exc |-> r.exc, attr |-> "", val |-> r.val]
    ELSE IF v0.t = "list"
    THEN [heap |-> h, exc |-> "", attr |-> "", val |-> ListVal(values)]
    ELSE IF HasStack(v0)
    THEN LET r == DistStackValues(h, values)
         IN [heap |-> r.heap, exc |-> r.out.exc, attr |-> r.out.attr,
             val |-> DistVal(r.out.ret)]
    ELSE [heap |-> h, exc |-> "ValueError", attr |-> v0.t, val |-> v0]

\* A result that keeps only the fields every record has
RECURSIVE StackFieldsCommon(_, _, _, _, _)
StackFieldsCommon(rh, h, rids, k, ret) ==
    LET keys == rh[rids[1]] IN
    IF k > Len(keys) THEN [heap |-> h, exc |-> "", attr |-> "", fields |-> ret]
    ELSE LET name == keys[k].name IN
         IF \E i \in 1..Len(rids) : ~HasField(rh[rids[i]], name)
         THEN StackFieldsCommon(rh, h, rids, k + 1, ret)
         ELSE LET values == [i \in 1..Len(rids) |-> FieldValue(rh[rids[i]], name)]
                  m == Merge(h, values)
              IN IF m.exc # ""
                 THEN [heap |-> m.heap, exc |-> m.exc, attr |-> m.attr, fields |-> ret]
                 ELSE StackFieldsCommon(rh, m.heap, rids, k + 1,
                                        SetField(ret, name, m.val))

\* for k in instance_lists[0]._fields.keys(): ... from key k on; h is the heap
\* of containers so far and ret the fields of the result so far
RECURSIVE StackFields(_, _, _, _, _)
StackFields(rh, h, rids, k, ret) ==
    LET keys == rh[rids[1]] IN
    IF k > Len(keys) THEN [heap |-> h, exc |-> "", attr |-> "", fields |-> ret]
    ELSE LET name == keys[k].name IN
         IF \E i \in 1..Len(rids) : ~HasField(rh[rids[i]], name)
         THEN [heap |-> h, exc |-> "KeyError", attr |-> "", fields |-> ret]
         ELSE LET values == [i \in 1..Len(rids) |-> FieldValue(rh[rids[i]], name)]
                  m == Merge(h, values)
              IN IF m.exc # ""
                 THEN [heap |-> m.heap, exc |-> m.exc, attr |-> m.attr, fields |-> ret]
                 ELSE StackFields(rh, m.heap, rids, k + 1, SetField(ret, name, m.val))

\* Instance.stack(instance_lists), rids non-empty: both heaps after the call
\* and the outcome
InstanceStack(rh, h, rids) ==
    LET r == StackFields(rh, h, rids, 1, <<>>) IN
    IF r.exc # ""
    THEN [recs |-> rh, heap |-> r.heap,
          out |-> Raise("Instance.stack", rids, r.exc, r.attr, <<>>)]
    ELSE [recs |-> Append(rh, r.fields), heap |-> r.heap,
          out |-> Ok("Instance.stack", rids, Len(rh) + 1)]

-----------------------------------------------------------------------------
(* Specification of Instance.stack *)

MaxRecs == 2       \* records of the batch at most

FieldNames == {<<"a">>, <<"b">>}

\* The values of a sample; DistVal(0) stands for a container of its own
RecValues == {TensorVal(<<2>>), ListVal(<<>>), IntVal0, DistVal(0)}

RecFields ==
    {f \in UNION {[1..n -> [name : FieldNames, value : RecValues]] : n \in 1..2} :
        \A p, q \in 1..Len(f) : p # q => f[p].name # f[q].name}

\* Every sample has its own containers, one per field: field p of record i
\* holds, where it holds a container, container 2(i-1)+p
Own(f, i) ==
    [p \in 1..Len(f) |->
        IF f[p].value.t = "DistTensorData"
        THEN [f[p] EXCEPT !.value = DistVal(2 * (i - 1) + p)] ELSE f[p]]

\* The containers of the first sample are of stage 0, the others of one stage
RecContainer(k) == DistTensorData(LocalTensor(<<2>>), <<TokSplit0, TokBroadcast>>, k)

InitRecs ==
    /\ \E n \in 1..MaxRecs :
          /\ \E rs \in [1..n -> RecFields] :
                recs = [i \in 1..n |-> Own(rs[i], i)]
          /\ \E k \in 0..1 :
                conts = [c \in 1..(2 * n) |-> RecContainer(IF c <= 2 THEN 0 ELSE k)]
    /\ last = Idle
    /\ calls = <<>>
    /\ inst = <<>>
    /\ hist = <<>>

\* The samples are batched once
StackRecords(rids) ==
    /\ last.op = ""
    /\ LET r == InstanceStack(recs, conts, rids)
       IN /\ recs' = r.recs
          /\ conts' = r.heap
          /\ last' = r.out
    /\ UNCHANGED <<calls, inst, hist>>

NextRecs == \E n \in 1..Len(recs) : StackRecords(Batch(n))

SpecRecs == InitRecs /\ [][NextRecs]_vars

\* The step is a call of Instance.stack on rids
RecordsCalled(rids) == last'.op = "Instance.stack" /\ last'.args = rids

KeyNames(fields) == [k \in 1..Len(fields) |-> fields[k].name]

\* Some record of the batch has no field of that name
Missing(rh, rids, name) == \E i \in 1..Len(rids) : ~HasField(rh[rids[i]], name)

Supported(v) == v.t \in {"Tensor", "list", "DistTensorData"}

\* The value the result must hold for the name, given the value v0 of
\* records[0]: the tensors stacked on a new axis 0, the per-record values as
\* they are, or the container DistTensorData.stack gives for the containers.
MergedAsSpecified(n, name, v0, got) ==
    IF v0.t = "Tensor"
    THEN got = TensorVal(<<n>> \o v0.shape)
    ELSE IF v0.t = "list"
    THEN /\ got.t = "list"
         /\ got.items = [i \in 1..n |-> FieldValue(recs[i], name)]
    ELSE /\ got.t = "DistTensorData"
         /\ got.ref \in 1..Len(conts')
         /\ IF n = 1 THEN got.ref = v0.ref ELSE got.ref > Len(conts)
         /\ conts'[got.ref].tensor.shape = <<n>> \o conts[v0.ref].tensor.shape
         /\ conts'[got.ref].sbp_list = conts[v0.ref].sbp_list
         /\ conts'[got.ref].placement_idx = conts[v0.ref].placement_idx

\* The dispatch of Instance.stack, the exception of the last branch being exc
MergeByType(exc) ==
    \A n \in 1..Len(recs) :
        RecordsCalled(Batch(n)) =>
            LET first == recs[1] IN
            /\ last'.status = "ok" =>
                  \A k \in 1..Len(first) :
                      /\ HasField(recs'[last'.ret], first[k].name)
                      /\ MergedAsSpecified(n, first[k].name, first[k].value,
                                           FieldValue(recs'[last'.ret], first[k].name))
            /\ (\E k \in 1..Len(first) : ~Supported(first[k].value)) =>
                  last'.status = "error"
            /\ (~Supported(first[1].value) /\ ~Missing(recs, Batch(n), first[1].name)) =>
                  /\ last'.exc = exc
                  /\ last'.attr = first[1].value.t

ListsBefore(first, k) == \A j \in 1..(k - 1) : first[j].value.t = "list"

\* The frame and result of Instance.stack; strict: a missing name always
\* gives KeyError
RecordStack(strict) ==
    \A n \in 1..Len(recs) :
        RecordsCalled(Batch(n)) =>
            LET first == recs[1]
                missing == {k \in 1..Len(first) : Missing(recs, Batch(n), first[k].name)}
            IN /\ \A i \in 1..Len(recs) : recs'[i] = recs[i]
               /\ last'.status = "ok" =>
                     /\ last'.ret = Len(recs) + 1
                     /\ Len(recs') = Len(recs) + 1
                     /\ KeyNames(recs'[last'.ret]) = KeyNames(first)
               /\ last'.status = "error" => recs' = recs
               /\ missing # {} => last'.status = "error"
               /\ last'.exc = "KeyError" => missing # {}
               /\ \A k \in missing :
                     (strict \/ ListsBefore(first, k)) => last'.exc = "KeyError"

\* C10 (as amended): a successful Instance.stack returns a new record whose
\* field names are those of records[0] in its order; if a later record lacks
\* one of them the call fails, with a KeyError when no earlier field of
\* records[0] has failed to merge first; the field mapping of every input
\* record is the same after the call as before.
C10_RecordStack == [][RecordStack(FALSE)]_vars

\* C10 as claimed: a missing name gives a lookup error in every case
C10_MissingIsLookupError == [][RecordStack(TRUE)]_vars

\* records[0] has b before a, records[1] a before b: the result has b before a
C10_Witness ==
    /\ last.op = "Instance.stack"
    /\ last.status = "ok"
    /\ Len(last.args) = 2
    /\ KeyNames(recs[1]) = <<<<"b">>, <<"a">>>>
    /\ KeyNames(recs[2]) = <<<<"a">>, <<"b">>>>
    /\ KeyNames(recs[3]) = <<<<"b">>, <<"a">>>>

====
